---- MODULE Spec2Model ----
(***************************************************************************)
(* Bulk-data export (cl_make_bulk_data.py) and California judge import     *)
(* (import_ca_judges.py) as state machines.                                *)
(*                                                                         *)
(* The file system is modelled as directories that map file names to file  *)
(* contents.  A file name is a record [stem, ext]; a file content is a     *)
(* record [ver, members]: a JSON file carries the version (date_modified)  *)
(* of the record serialized into it, an archive carries the bag of its     *)
(* members, each member again a [name, content] pair.                      *)
(***************************************************************************)
EXTENDS Bags, FiniteSets, Integers, Sequences, TLC

VARIABLES
    now,             \* django.utils.timezone.now(), in days
    db,              \* the four tables: db[type] maps a pk to its row
    BULK_DATA_DIR,   \* settings.BULK_DATA_DIR
    tmpSub,          \* tmpSub[type][court]: files of <BULK_DATA_DIR>/tmp/<type>/<court>/
    tmpFiles,        \* tmpFiles[type]: regular files of <BULK_DATA_DIR>/tmp/<type>/
    pubFiles,        \* pubFiles[type]: files of <BULK_DATA_DIR>/<type>/
    tmpBulkCitation, \* files of /tmp/bulk/citation/ when it is not <BULK_DATA_DIR>/citation/
    pc,              \* position of the management command
    idx,             \* index into arg_tuples of the type being exported
    runs,            \* number of do_everything runs started
    saves,           \* number of rows saved by the application so far
    ticks,           \* number of clock advances so far
    incremental,     \* incremental[type]: mode chosen by the last write_json_to_disk
    oldEntries,      \* oldEntries[type]: what the glob of test_if_old_bulk_files_exist saw
    oldJson,         \* oldJson[type]: tmpSub[type] when write_json_to_disk started
    qs,              \* qs[type]: pks selected by the last write_json_to_disk
    log,             \* steps of the current run, in order
    lastSwap,        \* type of the last swap_archives call, and the directories before it
    numJudges,       \* import_ca_judges: len(judge_info)
    judgeIdx,        \* import_ca_judges: number of the judge being processed (from 1)
    posIdx,          \* import_ca_judges: number of the next position of that judge
    processedLen,    \* processedLen[j]: len(processed) of judge j, once j is started
    people,          \* judges stored by find_or_create_judge
    positions,       \* rows of the Position table: <<judge, position number>>
    pos,             \* the processed position whose row is being created
    createArgs,      \* keyword arguments of the Position.objects.create call in progress
    importStatus     \* "idle", "running", "creating", "done" or "failed"

exportVars == <<now, db, BULK_DATA_DIR, tmpSub, tmpFiles, pubFiles, tmpBulkCitation,
                pc, idx, runs, saves, ticks, incremental, oldEntries, oldJson, qs,
                log, lastSwap>>
importVars == <<numJudges, judgeIdx, posIdx, processedLen, people, positions, pos,
                createArgs, importStatus>>
vars == <<exportVars, importVars>>

----------------------------------------------------------------------------
(* Bounds of the model *)

MaxPk == 2        \* integer primary keys are 1..MaxPk
MaxChanges == 2   \* rows saved and clock advances between runs, together
MaxRuns == 2      \* runs of the management command
MaxSwaps == 2      \* swap_archives calls made on a prepared directory tree
MaxJudges == 3    \* judges in the input file
MaxPositions == 3 \* positions of one judge

CourtIds == {"ca1", "ca2"}
IntPks == 1..MaxPk
Deltas == {31, 32}            \* days by which the clock advances
BulkDataDirs == {"/tmp/bulk", "/srv/bulk-data"}

----------------------------------------------------------------------------
(* Files *)

EmptyDir == [n \in {} |-> 0]

Name(stem, ext) == [stem |-> stem, ext |-> ext]

\* a plain file (a serialized record, a CSV dump) written from data of version ver
JsonContent(ver) == [ver |-> ver, members |-> EmptyBag]
ArchiveContent(members) == [ver |-> 0, members |-> members]

\* '%s.json' % item.pk, '%s.tar.gz' % court.pk: the pk formatted as a string
\* (Court pks are strings already, the other tables have integer pks)
PkStr(table, pk) == IF table = "jurisdiction" THEN pk ELSE ToString(pk)

\* the directory dir with file name bound to content (created or overwritten)
WriteFile(dir, name, content) ==
    [n \in (DOMAIN dir) \cup {name} |-> IF n = name THEN content ELSE dir[n]]

RemoveFiles(dir, names) == [n \in (DOMAIN dir) \ names |-> dir[n]]

\* the *.json files of a directory, as archive members (tar.add of each glob hit)
JsonMembers(dir) ==
    SetToBag({[name |-> n, content |-> dir[n]] : n \in {m \in DOMAIN dir : m.ext = "json"}})

\* glob pattern '*.tar*'
MatchesTarStar(name) == name.ext \in {"tar", "tar.gz"}

RECURSIVE BagSumOver(_, _)
\* the bag sum of f[x] over the finite set S
BagSumOver(S, f) ==
    IF S = {} THEN EmptyBag
    ELSE LET x == CHOOSE y \in S : TRUE IN f[x] (+) BagSumOver(S \ {x}, f)

RECURSIVE Scale(_, _)
\* the bag B taken k times
Scale(B, k) == IF k = 0 THEN EmptyBag ELSE B (+) Scale(B, k - 1)

RECURSIVE RecordsIn(_)
\* the bag of record files an archive holds, those of the archives packed in it included
RecordsIn(content) ==
    LET ms == content.members
        own == {m \in DOMAIN ms : m.name.ext = "json"}
        inner == {m \in DOMAIN ms : m.name.ext # "json"}
    IN  [m \in own |-> ms[m]]
        (+) BagSumOver(inner, [m \in inner |-> Scale(RecordsIn(m.content), ms[m])])

----------------------------------------------------------------------------
(* The database *)

\* mutant: the audio files are made before the document files
arg_tuples_audio_first ==
    << [obj_type_str |-> "audio",        court_attr |-> <<"docket", "court_id">>],
       [obj_type_str |-> "document",     court_attr |-> <<"docket", "court_id">>],
       [obj_type_str |-> "docket",       court_attr |-> <<"court_id">>],
       [obj_type_str |-> "jurisdiction", court_attr |-> <<"pk">>] >>

\* arg_tuples of do_everything: (obj_type_str, court_attr), in order
arg_tuples ==
    << [obj_type_str |-> "document",     court_attr |-> <<"docket", "court_id">>],
       [obj_type_str |-> "audio",        court_attr |-> <<"docket", "court_id">>],
       [obj_type_str |-> "docket",       court_attr |-> <<"court_id">>],
       [obj_type_str |-> "jurisdiction", court_attr |-> <<"pk">>] >>

Types == {arg_tuples[i].obj_type_str : i \in DOMAIN arg_tuples}
DirTypes == Types \cup {"citation"}

NoRows == [n \in {} |-> 0]

EmptyDb == [document |-> NoRows, audio |-> NoRows, docket |-> NoRows,
            jurisdiction |-> NoRows]

\* two courts, one docket in the first, one opinion and one recording on that docket
SeedDb == [document     |-> (1 :> [docket |-> 1, date_modified |-> 0]),
           audio        |-> (1 :> [docket |-> 1, date_modified |-> 0]),
           docket       |-> (1 :> [court_id |-> "ca1", date_modified |-> 0]),
           jurisdiction |-> [c \in CourtIds |-> [date_modified |-> 0]]]

\* getattr on a model instance, an instance being [table, pk]
GetAttr(obj, attr) ==
    CASE attr = "pk" -> obj.pk
      [] attr = "docket" -> [table |-> "docket", pk |-> db[obj.table][obj.pk].docket]
      [] attr = "court_id" -> db[obj.table][obj.pk].court_id

RECURSIVE deepgetattr(_, _)
\* reduce(getattr, attr.split('.'), obj)
deepgetattr(obj, attr) ==
    IF attr = <<>> THEN obj ELSE deepgetattr(GetAttr(obj, Head(attr)), Tail(attr))

\* Court.objects.all()
Courts == DOMAIN db["jurisdiction"]

\* save() of a row by the application: date_modified is set to now (auto_now)
SaveCourt(c) ==
    /\ pc = "idle"
    /\ saves + ticks < MaxChanges
    /\ db' = [db EXCEPT !["jurisdiction"] = WriteFile(@, c, [date_modified |-> now])]
    /\ saves' = saves + 1
    /\ UNCHANGED <<now, BULK_DATA_DIR, tmpSub, tmpFiles, pubFiles, tmpBulkCitation, pc,
                   idx, runs, ticks, incremental, oldEntries, oldJson, qs, log, lastSwap>>
    /\ UNCHANGED importVars

SaveDocket(pk, c) ==
    /\ pc = "idle"
    /\ saves + ticks < MaxChanges
    /\ c \in Courts
    /\ db' = [db EXCEPT !["docket"] =
                 WriteFile(@, pk, [court_id |-> c, date_modified |-> now])]
    /\ saves' = saves + 1
    /\ UNCHANGED <<now, BULK_DATA_DIR, tmpSub, tmpFiles, pubFiles, tmpBulkCitation, pc,
                   idx, runs, ticks, incremental, oldEntries, oldJson, qs, log, lastSwap>>
    /\ UNCHANGED importVars

\* a Document or an Audio row, on docket d
SaveOnDocket(table, pk, d) ==
    /\ pc = "idle"
    /\ saves + ticks < MaxChanges
    /\ d \in DOMAIN db["docket"]
    /\ db' = [db EXCEPT ![table] = WriteFile(@, pk, [docket |-> d, date_modified |-> now])]
    /\ saves' = saves + 1
    /\ UNCHANGED <<now, BULK_DATA_DIR, tmpSub, tmpFiles, pubFiles, tmpBulkCitation, pc,
                   idx, runs, ticks, incremental, oldEntries, oldJson, qs, log, lastSwap>>
    /\ UNCHANGED importVars

\* time passes between two runs of the command
Tick(d) ==
    /\ pc = "idle"
    /\ saves + ticks < MaxChanges
    /\ now' = now + d
    /\ ticks' = ticks + 1
    /\ UNCHANGED <<db, BULK_DATA_DIR, tmpSub, tmpFiles, pubFiles, tmpBulkCitation, pc,
                   idx, runs, saves, incremental, oldEntries, oldJson, qs, log, lastSwap>>
    /\ UNCHANGED importVars

----------------------------------------------------------------------------
(* cl_make_bulk_data.py *)

ThirtyTwoDays == 32

\* glob of <BULK_DATA_DIR>/tmp/<obj_type_str>/*: sub-directories and files alike
GlobTmp(obj_type_str) ==
    [dirs |-> DOMAIN tmpSub[obj_type_str], files |-> DOMAIN tmpFiles[obj_type_str]]

test_if_old_bulk_files_exist(obj_type_str) ==
    LET hits == GlobTmp(obj_type_str) IN hits.dirs # {} \/ hits.files # {}

\* mutant: the filter written with __gte
FilterDateModifiedGte(obj_type_str, bound) ==
    {pk \in DOMAIN db[obj_type_str] : db[obj_type_str][pk].date_modified >= bound}

\* obj_type.objects.filter(date_modified__gt=thirty_two_days_ago)
FilterDateModifiedGt(obj_type_str, bound) ==
    {pk \in DOMAIN db[obj_type_str] : db[obj_type_str][pk].date_modified > bound}

\* the queryset of write_json_to_disk and make_archive
Queryset(obj_type_str, incr) ==
    IF incr THEN FilterDateModifiedGt(obj_type_str, now - ThirtyTwoDays)
    ELSE DOMAIN db[obj_type_str]

\* item_list: queryset_generator(qs) for integer pks, qs itself otherwise; both
\* yield every item of the queryset once
ItemList(obj_type_str, q) == q

JsonName(obj_type_str, pk) == Name(PkStr(obj_type_str, pk), "json")

\* mutant: the court's directory is emptied before the items are written
WriteItemsIntoEmptied(dir, obj_type_str, court_attr, items, court) ==
    LET mine == {pk \in items :
                   deepgetattr([table |-> obj_type_str, pk |-> pk], court_attr) = court}
    IN  [n \in {JsonName(obj_type_str, pk) : pk \in mine} |->
            JsonContent(db[obj_type_str][CHOOSE pk \in mine :
                                           JsonName(obj_type_str, pk) = n].date_modified)]

\* the directory <BULK_DATA_DIR>/tmp/<obj_type_str>/<court>/ after the files of the
\* items of that court are written into it
WriteItems(dir, obj_type_str, court_attr, items, court) ==
    LET mine == {pk \in items :
                   deepgetattr([table |-> obj_type_str, pk |-> pk], court_attr) = court}
        written == {JsonName(obj_type_str, pk) : pk \in mine}
        PkOf(n) == CHOOSE pk \in mine : JsonName(obj_type_str, pk) = n
    IN  [n \in (DOMAIN dir) \cup written |->
            IF n \in written
            THEN JsonContent(db[obj_type_str][PkOf(n)].date_modified)
            ELSE dir[n]]

\* mkdir_p of one directory per court: existing directories are kept as they are
MkdirCourts(sub, courts) ==
    [c \in (DOMAIN sub) \cup courts |-> IF c \in DOMAIN sub THEN sub[c] ELSE EmptyDir]

RunVarsUnchanged ==
    /\ UNCHANGED <<now, db, BULK_DATA_DIR, runs, saves, ticks>>
    /\ UNCHANGED importVars

\* manage.py cl_make_bulk_data: handle() calls do_everything()
do_everything ==
    /\ pc = "idle"
    /\ runs < MaxRuns
    /\ runs' = runs + 1
    /\ pc' = "write_json_to_disk"
    /\ idx' = 1
    /\ log' = <<>>
    /\ incremental' = [t \in Types |-> "unset"]
    /\ oldEntries' = [t \in Types |-> [dirs |-> {}, files |-> {}]]
    /\ oldJson' = [t \in Types |-> EmptyDir]
    /\ qs' = [t \in Types |-> {}]
    /\ UNCHANGED <<now, db, BULK_DATA_DIR, tmpSub, tmpFiles, pubFiles, tmpBulkCitation,
                   saves, ticks, lastSwap>>
    /\ UNCHANGED importVars

write_json_to_disk ==
    /\ pc = "write_json_to_disk"
    /\ LET obj_type_str == arg_tuples[idx].obj_type_str
           court_attr == arg_tuples[idx].court_attr
           incr == test_if_old_bulk_files_exist(obj_type_str)
           made == MkdirCourts(tmpSub[obj_type_str], Courts)
           q == Queryset(obj_type_str, incr)
           item_list == ItemList(obj_type_str, q)
       IN  /\ incremental' = [incremental EXCEPT
                                ![obj_type_str] = IF incr THEN "incremental" ELSE "full"]
           /\ oldEntries' = [oldEntries EXCEPT ![obj_type_str] = GlobTmp(obj_type_str)]
           /\ oldJson' = [oldJson EXCEPT ![obj_type_str] = tmpSub[obj_type_str]]
           /\ qs' = [qs EXCEPT ![obj_type_str] = q]
           /\ log' = Append(log, <<"write_json_to_disk", obj_type_str>>)
           /\ IF q = {}
              THEN \* qs[0] raises IndexError; the directories are already made
                   /\ tmpSub' = [tmpSub EXCEPT ![obj_type_str] = made]
                   /\ pc' = "crashed"
              ELSE /\ tmpSub' = [tmpSub EXCEPT ![obj_type_str] =
                                   [c \in DOMAIN made |->
                                      WriteItems(made[c], obj_type_str, court_attr,
                                                 item_list, c)]]
                   /\ pc' = "tar_and_compress_all_json_files"
    /\ UNCHANGED <<tmpFiles, pubFiles, tmpBulkCitation, idx, lastSwap>>
    /\ RunVarsUnchanged

TarGzName(court) == Name(PkStr("jurisdiction", court), "tar.gz")
AllTar == Name("all", "tar")

\* first loop of tar_and_compress_all_json_files: <court>.tar.gz, opened "w:gz", gets
\* every *.json file of the court's directory
CourtArchives(files, sub, courts) ==
    [n \in (DOMAIN files) \cup {TarGzName(c) : c \in courts} |->
        IF \E c \in courts : TarGzName(c) = n
        THEN LET c == CHOOSE k \in courts : TarGzName(k) = n
             IN  ArchiveContent(IF c \in DOMAIN sub THEN JsonMembers(sub[c])
                                ELSE EmptyBag)
        ELSE files[n]]

\* mutant: the second loop starts at the second court
AllArchiveSkippingFirst(files, courts) ==
    WriteFile(files, AllTar,
              ArchiveContent(SetToBag({[name |-> TarGzName(c),
                                        content |-> files[TarGzName(c)]] :
                                          c \in courts \ {"ca1"}})))

\* second loop: all.tar, opened "w", gets the <court>.tar.gz of every court
AllArchive(files, courts) ==
    WriteFile(files, AllTar,
              ArchiveContent(SetToBag({[name |-> TarGzName(c),
                                        content |-> files[TarGzName(c)]] : c \in courts})))

tar_and_compress_all_json_files ==
    /\ pc = "tar_and_compress_all_json_files"
    /\ LET obj_type_str == arg_tuples[idx].obj_type_str
       IN  /\ tmpFiles' = [tmpFiles EXCEPT ![obj_type_str] =
                             AllArchive(CourtArchives(@, tmpSub[obj_type_str], Courts),
                                        Courts)]
           /\ log' = Append(log, <<"tar_and_compress_all_json_files", obj_type_str>>)
    /\ pc' = "swap_archives"
    /\ UNCHANGED <<tmpSub, pubFiles, tmpBulkCitation, idx, incremental, oldEntries,
                   oldJson, qs, lastSwap>>
    /\ RunVarsUnchanged

\* glob of <BULK_DATA_DIR>/tmp/<obj_type_str>/*.tar*
GlobTarStar(dir) == {n \in DOMAIN dir : MatchesTarStar(n)}

\* mutant: the loop stops after the first file
MoveFirstOnly(tmp, pub, hits) ==
    LET first == IF hits = {} THEN {} ELSE {CHOOSE n \in hits : TRUE}
    IN  [tmp |-> RemoveFiles(tmp, first),
         pub |-> [n \in (DOMAIN pub) \cup first |->
                    IF n \in first THEN tmp[n] ELSE pub[n]]]

\* mutant: the published directory is replaced by the staged archives
MoveAllIntoEmptied(tmp, pub, hits) ==
    [tmp |-> RemoveFiles(tmp, hits), pub |-> [n \in hits |-> tmp[n]]]

\* shutil.move of every glob hit into the published directory, under its basename
MoveAll(tmp, pub, hits) ==
    [tmp |-> RemoveFiles(tmp, hits),
     pub |-> [n \in (DOMAIN pub) \cup hits |-> IF n \in hits THEN tmp[n] ELSE pub[n]]]

\* swap_archives(obj_type_str) on the two directory trees
SwapArchives(tmp, pub, obj_type_str) ==
    LET moved == MoveAll(tmp[obj_type_str], pub[obj_type_str],
                         GlobTarStar(tmp[obj_type_str]))
    IN  [tmp |-> [tmp EXCEPT ![obj_type_str] = moved.tmp],
         pub |-> [pub EXCEPT ![obj_type_str] = moved.pub]]

\* the swap_archives(obj_type_str) call that ends the loop body of do_everything
swap_archives ==
    /\ pc = "swap_archives"
    /\ LET obj_type_str == arg_tuples[idx].obj_type_str
           after == SwapArchives(tmpFiles, pubFiles, obj_type_str)
       IN  /\ tmpFiles' = after.tmp
           /\ pubFiles' = after.pub
           /\ lastSwap' = [type |-> obj_type_str, tmp |-> tmpFiles, pub |-> pubFiles]
           /\ log' = Append(log, <<"swap_archives", obj_type_str>>)
    /\ IF idx < Len(arg_tuples)
       THEN idx' = idx + 1 /\ pc' = "write_json_to_disk"
       ELSE idx' = idx /\ pc' = "make_citation_data"
    /\ UNCHANGED <<tmpSub, tmpBulkCitation, incremental, oldEntries, oldJson, qs>>
    /\ RunVarsUnchanged

AllCsvGz == Name("all", "csv.gz")

\* make_citation_data: psql ... | gzip > /tmp/bulk/citation/all.csv.gz
\* With BULK_DATA_DIR = /tmp/bulk that directory is the published citation directory.
make_citation_data ==
    /\ pc = "make_citation_data"
    /\ IF BULK_DATA_DIR = "/tmp/bulk"
       THEN /\ pubFiles' = [pubFiles EXCEPT !["citation"] =
                              WriteFile(@, AllCsvGz, JsonContent(now))]
            /\ UNCHANGED tmpBulkCitation
       ELSE /\ tmpBulkCitation' = WriteFile(tmpBulkCitation, AllCsvGz, JsonContent(now))
            /\ UNCHANGED pubFiles
    /\ log' = Append(log, <<"make_citation_data", "citation">>)
    /\ pc' = "swap_citation"
    /\ UNCHANGED <<tmpSub, tmpFiles, idx, incremental, oldEntries, oldJson, qs, lastSwap>>
    /\ RunVarsUnchanged

\* swap_archives('citation'), the last call of do_everything
swap_citation ==
    /\ pc = "swap_citation"
    /\ LET after == SwapArchives(tmpFiles, pubFiles, "citation")
       IN  /\ tmpFiles' = after.tmp
           /\ pubFiles' = after.pub
           /\ lastSwap' = [type |-> "citation", tmp |-> tmpFiles, pub |-> pubFiles]
    /\ log' = Append(log, <<"swap_archives", "citation">>)
    /\ pc' = "done"
    /\ UNCHANGED <<tmpSub, tmpBulkCitation, idx, incremental, oldEntries, oldJson, qs>>
    /\ RunVarsUnchanged

\* handle() returns after 'Done.', or the exception ends the process
handle_returns ==
    /\ pc \in {"done", "crashed"}
    /\ pc' = "idle"
    /\ UNCHANGED <<tmpSub, tmpFiles, pubFiles, tmpBulkCitation, idx, incremental,
                   oldEntries, oldJson, qs, log, lastSwap>>
    /\ RunVarsUnchanged

----------------------------------------------------------------------------
(* Specification of the export command *)

NoDirs == [t \in DirTypes |-> EmptyDir]

ImportIdle ==
    /\ numJudges = 0
    /\ judgeIdx = 0
    /\ posIdx = 1
    /\ processedLen = <<>>
    /\ people = {}
    /\ positions = {}
    /\ pos = EmptyDir
    /\ createArgs = EmptyDir
    /\ importStatus = "idle"

Init ==
    /\ now = 0
    /\ db \in {EmptyDb, SeedDb}
    /\ BULK_DATA_DIR \in BulkDataDirs
    /\ tmpSub = [t \in Types |-> EmptyDir]
    /\ tmpFiles = NoDirs
    /\ pubFiles = NoDirs
    /\ tmpBulkCitation = EmptyDir
    /\ pc = "idle"
    /\ idx = 1
    /\ runs = 0
    /\ saves = 0
    /\ ticks = 0
    /\ incremental = [t \in Types |-> "unset"]
    /\ oldEntries = [t \in Types |-> [dirs |-> {}, files |-> {}]]
    /\ oldJson = [t \in Types |-> EmptyDir]
    /\ qs = [t \in Types |-> {}]
    /\ log = <<>>
    /\ lastSwap = [type |-> "none", tmp |-> NoDirs, pub |-> NoDirs]
    /\ ImportIdle

Next ==
    \/ \E c \in CourtIds : SaveCourt(c)
    \/ \E pk \in IntPks, c \in CourtIds : SaveDocket(pk, c)
    \/ \E table \in {"document", "audio"}, pk \in IntPks, d \in IntPks :
          SaveOnDocket(table, pk, d)
    \/ \E d \in Deltas : Tick(d)
    \/ do_everything
    \/ write_json_to_disk
    \/ tar_and_compress_all_json_files
    \/ swap_archives
    \/ make_citation_data
    \/ swap_citation
    \/ handle_returns

Spec == Init /\ [][Next]_vars

----------------------------------------------------------------------------
(* Properties of the export command *)

Running == pc # "idle"

\* the type whose loop body do_everything is in
CurrentType == arg_tuples[idx].obj_type_str

\* the court a row is exported under
CourtOf(t, pk) ==
    CASE t \in {"document", "audio"} -> db["docket"][db[t][pk].docket].court_id
      [] t = "docket" -> db[t][pk].court_id
      [] t = "jurisdiction" -> pk

\* the record file of row pk of table t, as serialized from the row as it is now
RecordFile(t, pk) ==
    [name |-> [stem |-> IF t = "jurisdiction" THEN pk ELSE ToString(pk), ext |-> "json"],
     content |-> [ver |-> db[t][pk].date_modified, members |-> EmptyBag]]

ModifiedInLast32Days(t) == {pk \in DOMAIN db[t] : now - db[t][pk].date_modified < 32}

\* C1: write_json_to_disk is incremental exactly when the glob of the type's staging
\* directory, made when the type's export starts, finds anything (files or
\* sub-directories); incremental mode selects exactly the rows with
\* date_modified > now - 32 days, and an empty staging directory selects every row.
C1_ModeAndSelection ==
    Running =>
        \A t \in Types :
            incremental[t] # "unset" =>
                LET found == oldEntries[t].dirs # {} \/ oldEntries[t].files # {}
                IN  /\ (incremental[t] = "incremental") <=> found
                    /\ found => qs[t] = ModifiedInLast32Days(t)
                    /\ ~found => qs[t] = DOMAIN db[t]

\* C1 witness: an incremental export that leaves out a row modified exactly 32 days
\* ago and takes a newer one
C1_Witness ==
    /\ Running
    /\ \E t \in Types :
          /\ incremental[t] = "incremental"
          /\ qs[t] # {}
          /\ \E pk \in DOMAIN db[t] :
                pk \notin qs[t] /\ db[t][pk].date_modified = now - 32

\* the per-jurisdiction archive of court c holds exactly the record files in recs
CourtArchiveHolds(t, c, recs) ==
    /\ [stem |-> c, ext |-> "tar.gz"] \in DOMAIN tmpFiles[t]
    /\ tmpFiles[t][[stem |-> c, ext |-> "tar.gz"]].members = SetToBag(recs)

\* the aggregate archive holds exactly the record files in recs
AggregateHolds(t, recs) ==
    /\ [stem |-> "all", ext |-> "tar"] \in DOMAIN tmpFiles[t]
    /\ DOMAIN RecordsIn(tmpFiles[t][[stem |-> "all", ext |-> "tar"]]) = recs

\* C2 as claimed: the archives built by the first run hold the full corpus, those
\* built by a later run hold only the rows modified in the 32 days before it.
C2_FirstFullThenOnlyRecent ==
    pc = "swap_archives" =>
        LET t == CurrentType
            rows == IF runs = 1 THEN DOMAIN db[t] ELSE ModifiedInLast32Days(t)
        IN  /\ \A c \in Courts :
                  CourtArchiveHolds(t, c, {RecordFile(t, pk) :
                                             pk \in {k \in rows : CourtOf(t, k) = c}})
            /\ AggregateHolds(t, {RecordFile(t, pk) : pk \in rows})

\* the record files staged for court c before this run's write_json_to_disk that the
\* run did not rewrite
KeptFiles(t, c) ==
    IF c \in DOMAIN oldJson[t]
    THEN {[name |-> n, content |-> oldJson[t][c][n]] :
            n \in {m \in DOMAIN oldJson[t][c] :
                     \A pk \in qs[t] : CourtOf(t, pk) = c => RecordFile(t, pk).name # m}}
    ELSE {}

\* C2 amended: the first run is a full export and its archives hold the full corpus;
\* the archives of an incremental run hold, per jurisdiction, the record files staged
\* by earlier runs with those of the rows modified in the last 32 days rewritten or
\* added; the aggregate archive holds the record files of the per-jurisdiction ones.
C2_FullThenAccumulated ==
    pc = "swap_archives" =>
        LET t == CurrentType
            Written(c) == {RecordFile(t, pk) : pk \in {k \in qs[t] : CourtOf(t, k) = c}}
        IN  /\ runs = 1 => incremental[t] = "full"
            /\ incremental[t] = "full" => qs[t] = DOMAIN db[t]
            /\ incremental[t] = "incremental" => qs[t] = ModifiedInLast32Days(t)
            /\ \A c \in Courts : CourtArchiveHolds(t, c, KeptFiles(t, c) \cup Written(c))
            /\ incremental[t] = "full" => \A c \in Courts : KeptFiles(t, c) = {}
            /\ AggregateHolds(t, UNION {KeptFiles(t, c) \cup Written(c) : c \in Courts})

\* C2 witness: an incremental run has archived a record file of a row that was not
\* modified in the last 32 days, next to a rewritten one
C2_Witness ==
    /\ pc = "swap_archives"
    /\ runs > 1
    /\ incremental[CurrentType] = "incremental"
    /\ \E c \in Courts : KeptFiles(CurrentType, c) # {}
    /\ qs[CurrentType] # {}

ExpectedSteps ==
    << <<"write_json_to_disk", "document">>,
       <<"tar_and_compress_all_json_files", "document">>,
       <<"swap_archives", "document">>,
       <<"write_json_to_disk", "audio">>,
       <<"tar_and_compress_all_json_files", "audio">>,
       <<"swap_archives", "audio">>,
       <<"write_json_to_disk", "docket">>,
       <<"tar_and_compress_all_json_files", "docket">>,
       <<"swap_archives", "docket">>,
       <<"write_json_to_disk", "jurisdiction">>,
       <<"tar_and_compress_all_json_files", "jurisdiction">>,
       <<"swap_archives", "jurisdiction">>,
       <<"make_citation_data", "citation">>,
       <<"swap_archives", "citation">> >>

\* C9: the steps of a run are taken in the order document, audio, docket,
\* jurisdiction, each type serialized, then archived, then published before the next
\* type starts, and the citation dump is made once, after the fourth type is
\* published; a run that completes has taken all of them.
C9_FixedOrder ==
    /\ Len(log) <= Len(ExpectedSteps)
    /\ log = SubSeq(ExpectedSteps, 1, Len(log))
    /\ pc = "done" => log = ExpectedSteps

\* C9 witness: a completed run
C9_Witness ==
    /\ pc = "done"
    /\ Len(log) = 14
    /\ \A t \in Types : [stem |-> "all", ext |-> "tar"] \in DOMAIN pubFiles[t]

\* C10: when do_everything has completed, all.csv.gz has been moved out of the
\* dump directory into the published citation directory.
C10_CitationDumpPublished ==
    pc = "done" =>
        /\ [stem |-> "all", ext |-> "csv.gz"] \in DOMAIN pubFiles["citation"]
        /\ [stem |-> "all", ext |-> "csv.gz"] \notin DOMAIN tmpBulkCitation

\* the last step of the run in progress was write_json_to_disk for type t
JustWrote(t) ==
    /\ Running
    /\ Len(log) > 0
    /\ log[Len(log)] = <<"write_json_to_disk", t>>

\* C11: write_json_to_disk completes normally for every selection, an empty one
\* included: the run goes on to archive the type, and for an empty selection the
\* staged record files are those that were there before, no file written.
C11_EmptySelectionCompletes ==
    \A t \in Types :
        JustWrote(t) =>
            /\ pc = "tar_and_compress_all_json_files"
            /\ qs[t] = {} =>
                  \A c \in DOMAIN tmpSub[t] :
                      tmpSub[t][c] = IF c \in DOMAIN oldJson[t] THEN oldJson[t][c]
                                     ELSE EmptyDir

\* the case C11 gives as its example never raises: an incremental run over a
\* non-empty table none of whose records was modified in the last 32 days
\* (refuted: it is reached with the run stopped by IndexError)
C11_IncrementalEmptyNeverRaises ==
    ~ \E t \in Types :
        /\ JustWrote(t)
        /\ incremental[t] = "incremental"
        /\ DOMAIN db[t] # {}
        /\ qs[t] = {}
        /\ pc = "crashed"

----------------------------------------------------------------------------
(* make_archive, the archiving path that packs each record while it serializes *)
(* it; the archives it leaves in staging are moved out by the next swap_archives *)

TarName(court) == Name(PkStr("jurisdiction", court), "tar")

\* tarfile.open(..., mode='a'): the archive as it is on disk, or a new empty one
OpenForAppend(files, name) ==
    IF name \in DOMAIN files THEN files[name] ELSE ArchiveContent(EmptyBag)

\* the member make_archive adds for an item: <pk>.json holding its serialization
ItemMember(obj_type_str, pk) ==
    [name |-> JsonName(obj_type_str, pk),
     content |-> JsonContent(db[obj_type_str][pk].date_modified)]

\* the regular files of <BULK_DATA_DIR>/tmp/<obj_type_str>/ after make_archive has
\* opened <court>.tar for every court and all.tar, and added every item of item_list
\* to the tar of its court and to all.tar
ArchivesWithItems(files, obj_type_str, court_attr, item_list, courts) ==
    LET Of(c) == {pk \in item_list :
                    deepgetattr([table |-> obj_type_str, pk |-> pk], court_attr) = c}
        Added(pks) == SetToBag({ItemMember(obj_type_str, pk) : pk \in pks})
        names == {TarName(c) : c \in courts} \cup {AllTar}
    IN  [n \in (DOMAIN files) \cup names |->
            IF n = AllTar
            THEN ArchiveContent(OpenForAppend(files, n).members (+) Added(item_list))
            ELSE IF \E c \in courts : TarName(c) = n
            THEN LET c == CHOOSE k \in courts : TarName(k) = n
                 IN  ArchiveContent(OpenForAppend(files, n).members (+) Added(Of(c)))
            ELSE files[n]]

\* Command.make_archive(obj_type_str, obj_type, court_attr, api_resource_obj, courts)
make_archive(i) ==
    /\ pc = "idle"
    /\ runs < MaxRuns
    /\ runs' = runs + 1
    /\ LET obj_type_str == arg_tuples[i].obj_type_str
           court_attr == arg_tuples[i].court_attr
           incr == test_if_old_bulk_files_exist(obj_type_str)
           q == Queryset(obj_type_str, incr)
           item_list == ItemList(obj_type_str, q)
       IN  /\ incremental' = [incremental EXCEPT
                                ![obj_type_str] = IF incr THEN "incremental" ELSE "full"]
           /\ oldEntries' = [oldEntries EXCEPT ![obj_type_str] = GlobTmp(obj_type_str)]
           /\ qs' = [qs EXCEPT ![obj_type_str] = q]
           /\ log' = <<<<"make_archive", obj_type_str>>>>
           \* with an empty queryset, qs[0] raises IndexError after the tars are opened
           /\ tmpFiles' = [tmpFiles EXCEPT ![obj_type_str] =
                             ArchivesWithItems(@, obj_type_str, court_attr, item_list,
                                               Courts)]
    /\ UNCHANGED <<now, db, BULK_DATA_DIR, tmpSub, pubFiles, tmpBulkCitation, pc, idx,
                   saves, ticks, oldJson, lastSwap>>
    /\ UNCHANGED importVars

\* both archiving paths: the command as it runs, and make_archive called on its own
InitArchive == Init /\ db = SeedDb /\ BULK_DATA_DIR = "/srv/bulk-data"

NextArchive ==
    \/ \E pk \in IntPks, c \in CourtIds : SaveDocket(pk, c)
    \/ \E d \in Deltas : Tick(d)
    \/ do_everything
    \/ write_json_to_disk
    \/ tar_and_compress_all_json_files
    \/ swap_archives
    \/ make_citation_data
    \/ swap_citation
    \/ handle_returns
    \/ \E i \in DOMAIN arg_tuples : make_archive(i)

SpecArchive == InitArchive /\ [][NextArchive]_vars

\* the number of record files in an archive
RecordCount(archive) == BagCardinality(RecordsIn(archive))

\* the per-jurisdiction archives with the given extension in a staging directory
CourtArchivesIn(files, ext) == {n \in DOMAIN files : n.ext = ext /\ n.stem # "all"}

\* all.tar holds the record files of the per-jurisdiction archives, each as often
\* as they do, so the counts agree
AggregateMatches(files, ext) ==
    LET per == CourtArchivesIn(files, ext)
        all == files[[stem |-> "all", ext |-> "tar"]]
    IN  /\ RecordsIn(all) = BagSumOver(per, [n \in per |-> RecordsIn(files[n])])
        /\ RecordCount(all) = BagCardinality(BagSumOver(per, [n \in per |-> files[n].members]))

\* C3: in both archiving paths the aggregate archive of a type holds as many record
\* files as its per-jurisdiction archives together, and the same ones: when
\* tar_and_compress_all_json_files has built all.tar from the <court>.tar.gz, and
\* when make_archive has added each item to its <court>.tar and to all.tar.
C3_AggregateEqualsSum ==
    /\ pc = "swap_archives" =>
          /\ {TarGzName(c) : c \in Courts} \subseteq DOMAIN tmpFiles[CurrentType]
          /\ AggregateMatches(tmpFiles[CurrentType], "tar.gz")
    /\ \A t \in Types :
          (pc = "idle" /\ log = <<<<"make_archive", t>>>>
             /\ [stem |-> "all", ext |-> "tar"] \in DOMAIN tmpFiles[t]) =>
              /\ {TarName(c) : c \in Courts} \subseteq DOMAIN tmpFiles[t]
              /\ AggregateMatches(tmpFiles[t], "tar")

\* C3 witness (first path): all.tar packs two court archives, one of them holding a
\* record file kept from an earlier run
C3_Witness ==
    /\ pc = "swap_archives"
    /\ incremental[CurrentType] = "incremental"
    /\ RecordCount(tmpFiles[CurrentType][AllTar]) >= 2

\* second path: make_archive has appended to archives it had filled before
C3_WitnessMakeArchive ==
    /\ pc = "idle"
    /\ \E t \in Types :
          /\ log = <<<<"make_archive", t>>>>
          /\ incremental[t] = "incremental"
          /\ AllTar \in DOMAIN tmpFiles[t]
          /\ RecordCount(tmpFiles[t][AllTar]) >= 2

----------------------------------------------------------------------------
(* swap_archives on prepared directory trees *)

\* an archive as an earlier run published it, and one as the current run staged it
OldArchive == ArchiveContent(EmptyBag)
NewArchive ==
    ArchiveContent(SetToBag({[name |-> Name("1", "json"), content |-> JsonContent(0)]}))

ArchiveNames == {TarGzName("ca1"), TarGzName("ca2"), AllTar}

\* the directories holding some of the names, each with the given content
DirsOf(names, content) == {[n \in S |-> content] : S \in SUBSET names}

\* swap_archives(obj_type_str), called on its own
swap_archives_call(obj_type_str) ==
    /\ pc = "idle"
    /\ Len(log) < MaxSwaps
    /\ LET after == SwapArchives(tmpFiles, pubFiles, obj_type_str)
       IN  /\ tmpFiles' = after.tmp
           /\ pubFiles' = after.pub
           /\ lastSwap' = [type |-> obj_type_str, tmp |-> tmpFiles, pub |-> pubFiles]
    /\ log' = Append(log, <<"swap_archives", obj_type_str>>)
    /\ UNCHANGED <<tmpSub, tmpBulkCitation, pc, idx, incremental, oldEntries, oldJson, qs>>
    /\ RunVarsUnchanged

\* staging holds archives of the current run, the published directories archives of
\* earlier runs, under some of the same names and some other names
InitSwap ==
    /\ now = 0
    /\ db = SeedDb
    /\ BULK_DATA_DIR = "/srv/bulk-data"
    /\ tmpSub = [t \in Types |-> [c \in CourtIds |-> EmptyDir]]
    /\ \E d \in DirsOf(ArchiveNames, NewArchive), a \in DirsOf({AllTar}, NewArchive) :
          tmpFiles = [NoDirs EXCEPT !["document"] = d, !["audio"] = a]
    /\ \E d \in DirsOf(ArchiveNames, OldArchive), a \in DirsOf({AllTar}, OldArchive) :
          pubFiles = [NoDirs EXCEPT !["document"] = d, !["audio"] = a]
    /\ tmpBulkCitation = EmptyDir
    /\ pc = "idle"
    /\ idx = 1
    /\ runs = 0
    /\ saves = 0
    /\ ticks = 0
    /\ incremental = [t \in Types |-> "unset"]
    /\ oldEntries = [t \in Types |-> [dirs |-> {}, files |-> {}]]
    /\ oldJson = [t \in Types |-> EmptyDir]
    /\ qs = [t \in Types |-> {}]
    /\ log = <<>>
    /\ lastSwap = [type |-> "none", tmp |-> tmpFiles, pub |-> pubFiles]
    /\ ImportIdle

NextSwap == \E t \in DirTypes : swap_archives_call(t)

SpecSwap == InitSwap /\ [][NextSwap]_vars

IsArchive(n) == n.ext = "tar" \/ n.ext = "tar.gz"

\* C4: swap_archives(type) leaves every staged archive of the type in the published
\* directory of the type, with its staged content, in place of any published file of
\* that name; every other published file, of this type or another, is as it was;
\* and no archive of the type is left in staging.
C4_SwapMovesAndKeeps ==
    lastSwap.type # "none" =>
        LET t == lastSwap.type
            staged == {n \in DOMAIN lastSwap.tmp[t] : IsArchive(n)}
        IN  /\ \A n \in staged :
                  n \in DOMAIN pubFiles[t] /\ pubFiles[t][n] = lastSwap.tmp[t][n]
            /\ \A n \in (DOMAIN lastSwap.pub[t]) \ staged :
                  n \in DOMAIN pubFiles[t] /\ pubFiles[t][n] = lastSwap.pub[t][n]
            /\ DOMAIN pubFiles[t] = (DOMAIN lastSwap.pub[t]) \cup staged
            /\ \A u \in DirTypes \ {t} : pubFiles[u] = lastSwap.pub[u]
            /\ \A n \in DOMAIN tmpFiles[t] : ~IsArchive(n)

\* C4 witness: a swap replaced a published archive, added one, and left alone a
\* published archive of another name and one of another type
C4_Witness ==
    /\ lastSwap.type = "document"
    /\ \E n \in DOMAIN lastSwap.tmp["document"] : n \in DOMAIN lastSwap.pub["document"]
    /\ \E n \in DOMAIN lastSwap.tmp["document"] : n \notin DOMAIN lastSwap.pub["document"]
    /\ \E n \in DOMAIN lastSwap.pub["document"] : n \notin DOMAIN lastSwap.tmp["document"]
    /\ DOMAIN pubFiles["audio"] # {}

\* the last two calls were swap_archives of the same type
SwappedTwice(t) ==
    /\ Len(log) >= 2
    /\ log[Len(log)] = <<"swap_archives", t>>
    /\ log[Len(log) - 1] = <<"swap_archives", t>>

\* C5: swap_archives(type) run a second time leaves the published directories as
\* the first run left them.
C5_SwapIdempotent ==
    \A t \in DirTypes : SwappedTwice(t) => pubFiles = lastSwap.pub

\* C5 witness: two swaps in a row of a type with two staged archives, one of them
\* replacing a published archive, and a published archive that is not replaced
C5_Witness ==
    /\ SwappedTwice("document")
    /\ DOMAIN pubFiles["document"] = ArchiveNames
    /\ pubFiles["document"][TarGzName("ca1")] = NewArchive
    /\ pubFiles["document"][AllTar] = NewArchive
    /\ pubFiles["document"][TarGzName("ca2")] = OldArchive

----------------------------------------------------------------------------
(* import_ca_judges.py *)

None == "None"

\* Python truth value of a field: None and the empty string are false
Truthy(v) == v \notin {None, ""}

GRANULARITY_DAY == "%Y-%m-%d"

\* the day-granularity form of a date string of the dump
convert_date_to_gran_format(date) == <<"gran", date>>

\* the dicts process_positions returns: the keys import_ca_judges reads and deletes
ProcessedPositions ==
    [pending_status : {FALSE}, inactive_status : {FALSE},
     court : {None, "CA-Super"}, organization_name : {None, "State Bar"},
     position_type : {None, "jud"}, job_title : {None, "Commissioner"},
     date_start : {None, "2001-05-01"},
     date_termination : {None, "", "2010-06-30"},
     termination_reason : {None, "retire_vol"}]

\* del d[k]
Del(d, k) == [x \in (DOMAIN d) \ {k} |-> d[x]]

\* d[k] = v
Put(d, k, v) == [x \in (DOMAIN d) \cup {k} |-> IF x = k THEN v ELSE d[x]]

\* "remove uneeded fields"
RemoveUnneeded(p) == Del(Del(p, "pending_status"), "inactive_status")

\* mutant: job_title is deleted when position_type is missing, not when it is set
DropCounterpartsInverted(p) ==
    LET q == IF Truthy(p["court"]) THEN Del(p, "organization_name") ELSE p
    IN  IF ~Truthy(q["position_type"]) THEN Del(q, "job_title") ELSE q

\* if pos["court"]: del pos["organization_name"]
\* if pos["position_type"]: del pos["job_title"]
DropCounterparts(p) ==
    LET q == IF Truthy(p["court"]) THEN Del(p, "organization_name") ELSE p
    IN  IF Truthy(q["position_type"]) THEN Del(q, "job_title") ELSE q

\* "convert date start to proper format"
ConvertDateStart(p) ==
    IF Truthy(p["date_start"])
    THEN Put(Put(p, "date_start", convert_date_to_gran_format(p["date_start"])),
             "date_granularity_start", GRANULARITY_DAY)
    ELSE p

\* mutant: an empty termination date is stored as it is, with its reason
ConvertDateTerminationKeepingEmpty(p) ==
    IF Truthy(p["date_termination"])
    THEN Put(Put(p, "date_termination",
                 convert_date_to_gran_format(p["date_termination"])),
             "date_granularity_termination", GRANULARITY_DAY)
    ELSE p

\* the if pos["date_termination"] ... else ... of the loop body
ConvertDateTermination(p) ==
    IF Truthy(p["date_termination"])
    THEN Put(Put(p, "date_termination",
                 convert_date_to_gran_format(p["date_termination"])),
             "date_granularity_termination", GRANULARITY_DAY)
    ELSE Del(Del(p, "date_termination"), "termination_reason")

\* the keyword arguments of Position.objects.create(**pos, person=judge)
CreateKwargs(p, judge) ==
    Put(ConvertDateTermination(ConvertDateStart(DropCounterparts(RemoveUnneeded(p)))),
        "person", judge)

\* mutant: the positions of a judge are inserted in one transaction, rolled back
\* when an insert fails
RowsAfterRollback(rows, judge) == {r \in rows : r[1] # judge}

\* the Position rows left when an insert for the judge raises: no transaction
\* encloses the loop, the rows inserted so far stay
RowsAfterFailedInsert(rows, judge) == rows

CurrentJudgeFinished ==
    IF judgeIdx = 0 THEN TRUE ELSE posIdx > processedLen[judgeIdx]

ExportUnchanged == UNCHANGED exportVars

\* for i, info in enumerate(judge_info): find_or_create_judge, process_positions
next_judge ==
    /\ importStatus = "running"
    /\ CurrentJudgeFinished
    /\ judgeIdx < numJudges
    /\ judgeIdx' = judgeIdx + 1
    /\ people' = people \cup {judgeIdx + 1}
    /\ \E n \in 0..MaxPositions : processedLen' = Append(processedLen, n)
    /\ posIdx' = 1
    /\ UNCHANGED <<numJudges, positions, pos, createArgs, importStatus>>
    /\ ExportUnchanged

\* the body of "for pos in processed" up to the call of Position.objects.create
normalize_position ==
    /\ importStatus = "running"
    /\ judgeIdx >= 1
    /\ posIdx <= processedLen[judgeIdx]
    /\ \E p \in ProcessedPositions :
          /\ pos' = p
          /\ createArgs' = CreateKwargs(p, judgeIdx)
    /\ importStatus' = "creating"
    /\ UNCHANGED <<numJudges, judgeIdx, posIdx, processedLen, people, positions>>
    /\ ExportUnchanged

\* Position.objects.create(**pos, person=judge) stores the row or raises
create_position ==
    /\ importStatus = "creating"
    /\ \E stored \in BOOLEAN :
          IF stored
          THEN /\ positions' = positions \cup {<<judgeIdx, posIdx>>}
               /\ posIdx' = posIdx + 1
               /\ importStatus' = "running"
          ELSE /\ positions' = RowsAfterFailedInsert(positions, judgeIdx)
               /\ importStatus' = "failed"
               /\ UNCHANGED posIdx
    /\ pos' = EmptyDir
    /\ createArgs' = EmptyDir
    /\ UNCHANGED <<numJudges, judgeIdx, processedLen, people>>
    /\ ExportUnchanged

\* the loop over judge_info is exhausted and import_ca_judges returns
import_returns ==
    /\ importStatus = "running"
    /\ CurrentJudgeFinished
    /\ judgeIdx = numJudges
    /\ importStatus' = "done"
    /\ UNCHANGED <<numJudges, judgeIdx, posIdx, processedLen, people, positions, pos,
                   createArgs>>
    /\ ExportUnchanged

ExportIdle ==
    /\ now = 0
    /\ db = EmptyDb
    /\ BULK_DATA_DIR = "/srv/bulk-data"
    /\ tmpSub = [t \in Types |-> EmptyDir]
    /\ tmpFiles = NoDirs
    /\ pubFiles = NoDirs
    /\ tmpBulkCitation = EmptyDir
    /\ pc = "idle"
    /\ idx = 1
    /\ runs = 0
    /\ saves = 0
    /\ ticks = 0
    /\ incremental = [t \in Types |-> "unset"]
    /\ oldEntries = [t \in Types |-> [dirs |-> {}, files |-> {}]]
    /\ oldJson = [t \in Types |-> EmptyDir]
    /\ qs = [t \in Types |-> {}]
    /\ log = <<>>
    /\ lastSwap = [type |-> "none", tmp |-> NoDirs, pub |-> NoDirs]

\* manage.py import_ca_judges --input-file F, F holding numJudges judges
InitImport ==
    /\ ExportIdle
    /\ numJudges \in 0..MaxJudges
    /\ judgeIdx = 0
    /\ posIdx = 1
    /\ processedLen = <<>>
    /\ people = {}
    /\ positions = {}
    /\ pos = EmptyDir
    /\ createArgs = EmptyDir
    /\ importStatus = "running"

NextImport ==
    \/ next_judge
    \/ normalize_position
    \/ create_position
    \/ import_returns

SpecImport == InitImport /\ [][NextImport]_vars

\* Position.objects.create is being called
Creating == importStatus = "creating"

\* C6: a position with a termination date is created with its termination_reason
\* as given, the date converted and date_granularity_termination = day; a position
\* without one is created with none of date_termination, termination_reason and
\* date_granularity_termination among the arguments of Position.objects.create.
C6_TerminationFields ==
    Creating =>
        IF pos["date_termination"] \notin {None, ""}
        THEN /\ {"date_termination", "termination_reason",
                 "date_granularity_termination"} \subseteq DOMAIN createArgs
             /\ createArgs["termination_reason"] = pos["termination_reason"]
             /\ createArgs["date_termination"] = <<"gran", pos["date_termination"]>>
             /\ createArgs["date_granularity_termination"] = "%Y-%m-%d"
        ELSE {"date_termination", "termination_reason",
              "date_granularity_termination"} \cap DOMAIN createArgs = {}

\* C6 witness: a position whose termination date is the empty string is created,
\* its termination reason given
C6_Witness ==
    /\ Creating
    /\ pos["date_termination"] = ""
    /\ pos["termination_reason"] # None

Carries(args, k) == k \in DOMAIN args /\ args[k] \notin {None, ""}

\* C7: no created position carries both court and organization_name, and none
\* carries both position_type and job_title.
C7_MutualExclusion ==
    Creating =>
        /\ Carries(createArgs, "court") => "organization_name" \notin DOMAIN createArgs
        /\ Carries(createArgs, "position_type") => "job_title" \notin DOMAIN createArgs

\* C7 witness: a position given with all four fields is created
C7_Witness ==
    /\ Creating
    /\ \A k \in {"court", "organization_name", "position_type", "job_title"} :
          pos[k] # None

\* C8: when the insert of position k of judge j raises, the import stops there:
\* judges 1..j are stored, every position of the judges before j and positions
\* 1..k-1 of judge j are stored, and nothing further is processed.
C8_PartialImportOnFailure ==
    importStatus = "failed" =>
        /\ people = 1..judgeIdx
        /\ positions = {<<j, k>> \in (1..judgeIdx) \X (1..MaxPositions) :
                          IF j < judgeIdx THEN k <= processedLen[j] ELSE k < posIdx}
        /\ ~ENABLED NextImport

\* C8 witness: the second of the three positions of the second of three judges
\* failed, the first judge having a position
C8_Witness ==
    /\ importStatus = "failed"
    /\ judgeIdx = 2
    /\ numJudges = 3
    /\ posIdx = 2
    /\ processedLen[2] = 3
    /\ positions = {<<1, 1>>, <<2, 1>>}

====
